---- MODULE Spec2Model ----
(***************************************************************************)
(* HackerOS installer (Installer/src/main.rs): the wizard loop of run_app, *)
(* the key handlers, and the installation pipeline of                      *)
(* perform_installation / install_edition / download_file.                 *)
(*                                                                         *)
(* Text typed by the user is a sequence of one-character strings.  Text    *)
(* built with format! is a tuple of its pieces.  A ListState selection is  *)
(* an index, or NoSel for Option::None.                                    *)
(***************************************************************************)
EXTENDS Integers, Sequences, FiniteSets, TLC

VARIABLES state, selected, pc, ip, log, exit_nonzero, http_failed, result,
          terminal, last_key, pre

\* state         the InstallerState of main
\* selected      list_state.selected() of run_app
\* pc            where main is: "setup" before setup_terminal, "setup_failed"
\*               after main returned the error of setup_terminal,
\*               "draw" and "read" in the loop of run_app,
\*               "install" in perform_installation, "teardown" after run_app
\*               returned, "exit" after main returned the result of run_app,
\*               "teardown_failed" after main returned the error of
\*               teardown_terminal instead
\* ip            index in Program of the next call of perform_installation
\* log           the calls of perform_installation that have taken effect
\* exit_nonzero  some external command has exited with a failure status
\* http_failed   some request was answered with a non-success HTTP status
\* result        what run_app returns: "none" while it runs, "Ok" or "Err"
\* terminal      "normal", "raw_only" (raw mode, main screen), "raw" (raw
\*               mode, alternate screen) or "alternate" (raw mode off,
\*               alternate screen not left)
\* last_key      history: the last key event handled
\* pre           history: stage, hostname and selection before that event
vars == <<state, selected, pc, ip, log, exit_nonzero, http_failed, result,
          terminal, last_key, pre>>

\* ---------------------------------------------------------------- bounds
\* longest text typed into one field
MaxLen == 2
\* most characters typed in one run, all fields together
MaxTyped == 3
\* largest selection index the Down key is followed to
MaxSel == 8

\* characters of the keys the user presses
Chars == {"a", "q"}

\* ------------------------------------------------------------- constants
NoSel == -1
None == "None"
DefaultHostname == <<"h", "a", "c", "k", "e", "r", "o", "s">>
STEPS == 10

\* ------------------------------------------------------- InstallerState
InstallerStateDefault ==
  [ current_step     |-> 0,
    username         |-> <<>>,
    password         |-> <<>>,
    hostname         |-> DefaultHostname,
    edition          |-> None,
    branch           |-> None,
    filesystem       |-> None,
    manual_partition |-> FALSE,
    disk             |-> <<>>,
    preview_image    |-> FALSE,
    quit             |-> FALSE ]

\* ---------------------------------------------------------- handle_enter
\* the positional tables of the list stages; None is the `_ => return Ok(())` arm
EditionOf(sel) ==
  CASE sel = 0 -> "Official"
    [] sel = 1 -> "Gnome"
    [] sel = 2 -> "Xfce"
    [] sel = 3 -> "Blue"
    [] sel = 4 -> "Hydra"
    [] sel = 5 -> "Cybersecurity"
    [] sel = 6 -> "Wayfire"
    [] sel = 7 -> "Atomic"
    [] OTHER   -> None

\* mutant: an index past the table is taken as the last branch
BranchOfSaturating(sel) ==
  CASE sel = 0 -> "Stable"
    [] sel = 1 -> "Testing"
    [] OTHER   -> "Unstable"

BranchOf(sel) ==
  CASE sel = 0 -> "Stable"
    [] sel = 1 -> "Testing"
    [] sel = 2 -> "Unstable"
    [] OTHER   -> None

\* mutant: two rows of the filesystem table are exchanged
FilesystemOfSwapped(sel) ==
  CASE sel = 0 -> "Ext4"
    [] sel = 1 -> "Btrfs"
    [] sel = 2 -> "Zfs"
    [] OTHER   -> None

FilesystemOf(sel) ==
  CASE sel = 0 -> "Btrfs"
    [] sel = 1 -> "Ext4"
    [] sel = 2 -> "Zfs"
    [] OTHER   -> None

ManualOf(sel) == (sel = 1)

\* mutant: the emptiness check is dropped
EnterNonEmptyAlways(st, field) == [st EXCEPT !.current_step = @ + 1]

\* mutant: the emptiness check is inverted
EnterNonEmptyInverted(st, field) ==
  IF field = <<>> THEN [st EXCEPT !.current_step = @ + 1] ELSE st

\* stages 1, 2 and 8: advance only when the stage's field is not empty
EnterNonEmpty(st, field) ==
  IF field # <<>> THEN [st EXCEPT !.current_step = @ + 1] ELSE st

\* mutant: an empty hostname is kept
EnterHostnameKeepsEmpty(st) == [st EXCEPT !.current_step = @ + 1]

\* stage 3: substitute the default for an empty hostname, then advance
EnterHostname(st) ==
  LET h == IF st.hostname = <<>> THEN DefaultHostname ELSE st.hostname
  IN  [st EXCEPT !.hostname = h, !.current_step = @ + 1]

\* mutant: the selection is not reset
ResetSelectionForgotten(sel) == sel

\* list_state.select(None) at the end of handle_enter
ResetSelection(sel) == NoSel

\* handle_enter: the new InstallerState and the new selection
HandleEnter(st, sel) ==
  LET done(s)  == [state |-> s, selected |-> ResetSelection(sel)]
      early(s) == [state |-> s, selected |-> sel]
      step     == st.current_step
  IN  CASE step = 0 -> done([st EXCEPT !.current_step = @ + 1])
        [] step = 1 -> done(EnterNonEmpty(st, st.username))
        [] step = 2 -> done(EnterNonEmpty(st, st.password))
        [] step = 3 -> done(EnterHostname(st))
        [] step = 4 ->
             IF sel = NoSel THEN done(st)
             ELSE IF EditionOf(sel) = None THEN early(st)
             ELSE done([st EXCEPT !.edition = EditionOf(sel),
                                  !.preview_image = TRUE,
                                  !.current_step = @ + 1])
        [] step = 5 ->
             IF sel = NoSel THEN done(st)
             ELSE IF BranchOf(sel) = None THEN early(st)
             ELSE done([st EXCEPT !.branch = BranchOf(sel),
                                  !.current_step = @ + 1])
        [] step = 6 ->
             IF sel = NoSel THEN done(st)
             ELSE IF FilesystemOf(sel) = None THEN early(st)
             ELSE done([st EXCEPT !.filesystem = FilesystemOf(sel),
                                  !.current_step = @ + 1])
        [] step = 7 ->
             IF sel = NoSel THEN done(st)
             ELSE done([st EXCEPT !.manual_partition = ManualOf(sel),
                                  !.current_step = @ + 1])
        [] step = 8 -> done(EnterNonEmpty(st, st.disk))
        [] step = 9 -> done([st EXCEPT !.current_step = @ + 1])
        [] OTHER    -> done(st)

\* ------------------------------------------------------ handle_char_input
\* mutant: the Hostname arm replaces the hostname by the character
HandleCharInputOverwrites(st, c) ==
  CASE st.current_step = 1 -> [st EXCEPT !.username = Append(@, c)]
    [] st.current_step = 2 -> [st EXCEPT !.password = Append(@, c)]
    [] st.current_step = 3 -> [st EXCEPT !.hostname = <<c>>]
    [] st.current_step = 8 -> [st EXCEPT !.disk = Append(@, c)]
    [] OTHER               -> st

\* mutant: the Hostname arm pushes to the username
HandleCharInputWrongField(st, c) ==
  CASE st.current_step = 1 -> [st EXCEPT !.username = Append(@, c)]
    [] st.current_step = 2 -> [st EXCEPT !.password = Append(@, c)]
    [] st.current_step = 3 -> [st EXCEPT !.username = Append(@, c)]
    [] st.current_step = 8 -> [st EXCEPT !.disk = Append(@, c)]
    [] OTHER               -> st

HandleCharInput(st, c) ==
  CASE st.current_step = 1 -> [st EXCEPT !.username = Append(@, c)]
    [] st.current_step = 2 -> [st EXCEPT !.password = Append(@, c)]
    [] st.current_step = 3 -> [st EXCEPT !.hostname = Append(@, c)]
    [] st.current_step = 8 -> [st EXCEPT !.disk = Append(@, c)]
    [] OTHER               -> st

\* ---------------------------------------------------------------- draw_ui
\* mutant: the list screens leave an unset selection unset
DrawSelectionKept(st, sel) == sel

\* the four list screens select index 0 when nothing is selected
DrawSelection(st, sel) ==
  IF st.current_step \in 4..7 /\ sel = NoSel THEN 0 ELSE sel

\* the number of items of the list of a list screen
OptionCount(step) ==
  CASE step = 4 -> 8
    [] step = 5 -> 3
    [] step = 6 -> 3
    [] step = 7 -> 2

\* f.render_stateful_widget(list, area, list_state): the selections the
\* ListState may hold after the list is rendered.  The ratatui version is
\* not fixed by the source: a List that leaves the selection as it is, and
\* a List that writes back an index past the last item as the last item's
\* index, are both allowed.
RenderSelection(st, sel) ==
  IF st.current_step \in 4..7 /\ sel >= OptionCount(st.current_step)
  THEN {sel, OptionCount(st.current_step) - 1}
  ELSE {sel}

\* the edition preview is shown once and the flag cleared
DrawState(st) == [st EXCEPT !.preview_image = FALSE]

\* ---------------------------------------------------------------- run_app
\* Up and Down on the ListState
SelectUp(sel) == IF sel # NoSel /\ sel > 0 THEN sel - 1 ELSE sel
\* mutant: Down stops at the last option of the longest list
SelectDownClamped(sel) == IF sel # NoSel /\ sel < 7 THEN sel + 1 ELSE sel

SelectDown(sel) == IF sel # NoSel THEN sel + 1 ELSE sel

\* mutant: the completion check is off by one
AfterEventOffByOne(st) ==
  IF st.quit THEN "teardown"
  ELSE IF st.current_step >= STEPS - 1 THEN "install"
  ELSE "draw"

\* mutant: the quit flag is not checked
AfterEventIgnoresQuit(st) ==
  IF st.current_step >= STEPS THEN "install" ELSE "draw"

\* the two checks at the bottom of the loop
AfterEvent(st) ==
  IF st.quit THEN "teardown"
  ELSE IF st.current_step >= STEPS THEN "install"
  ELSE "draw"

\* ------------------------------------------------- perform_installation
\* One pipeline step: op is the kind of call, name the program (for "exec")
\* or the library call, args its arguments (each a text), phase the section
\* of perform_installation it belongs to.
Step(op, name, args, phase) ==
  [op |-> op, name |-> name, args |-> args, phase |-> phase]

\* Command::new(prog).args(args).status()?
Exec(prog, args, phase) == Step("exec", prog, args, phase)

\* the chroot_cmd closure
ChrootCmd(cmd, phase) ==
  Exec("chroot", << <<"/mnt">>, <<"/bin/bash">>, <<"-c">>, cmd >>, phase)

\* mutant: the codenames of two branches are exchanged
BranchStrSwapped(b) ==
  CASE b = "Stable"   -> "trixie"
    [] b = "Testing"  -> "sid"
    [] b = "Unstable" -> "forky"

BranchStr(b) ==
  CASE b = "Stable"   -> "trixie"
    [] b = "Testing"  -> "forky"
    [] b = "Unstable" -> "sid"

FsCmd(f) ==
  CASE f = "Btrfs" -> "mkfs.btrfs"
    [] f = "Ext4"  -> "mkfs.ext4"
    [] f = "Zfs"   -> "zpool create"

BindDirs == <<"/dev", "/proc", "/sys", "/run">>

RepoSteps(st) ==
  << Step("write", "fs::write",
          << <<"/etc/apt/sources.list">>,
             <<"deb http://deb.debian.org/debian ", BranchStr(st.branch), " main">> >>,
          "repo"),
     Exec("apt", << <<"update">> >>, "repo") >>

PartitionSteps(st) ==
  IF st.manual_partition
  THEN << Exec("cfdisk", <<st.disk>>, "partition") >>
  ELSE << Exec("sfdisk", <<st.disk>>, "partition") >>

FormatSteps(st) ==
  << Exec(FsCmd(st.filesystem), << <<"/dev/sda2">> >>, "format") >>

MountSteps ==
  << Step("mkdir", "fs::create_dir_all", << <<"/mnt">> >>, "mount"),
     Exec("mount", << <<"/dev/sda2">>, <<"/mnt">> >>, "mount"),
     Step("mkdir", "fs::create_dir_all", << <<"/mnt/boot">> >>, "mount"),
     Exec("mount", << <<"/dev/sda1">>, <<"/mnt/boot">> >>, "mount") >>

BootstrapSteps(st) ==
  << Exec("debootstrap", << <<BranchStr(st.branch)>>, <<"/mnt">> >>, "bootstrap") >>

\* the loop body of the bind mounts for one directory
BindMount(dir) ==
  << Step("mkdir", "fs::create_dir_all", << <<"/mnt", dir>> >>, "bind"),
     Exec("mount", << <<"--bind">>, <<dir>>, <<"/mnt", dir>> >>, "bind") >>

BindSteps ==
  BindMount(BindDirs[1]) \o BindMount(BindDirs[2]) \o
  BindMount(BindDirs[3]) \o BindMount(BindDirs[4])

BaseSteps(st) ==
  << ChrootCmd(<<"apt update">>, "base"),
     ChrootCmd(<<"apt install -y linux-image-amd64 grub-efi-amd64">>, "base"),
     ChrootCmd(<<"useradd -m -G sudo ">> \o st.username, "base"),
     ChrootCmd(<<"echo '">> \o st.username \o <<":">> \o st.password
                 \o <<"' | chpasswd">>, "base"),
     ChrootCmd(<<"echo '">> \o st.username
                 \o <<" ALL=(ALL) ALL' >> /etc/sudoers">>, "base") >>

HostnameSteps(st) ==
  << Step("write", "fs::write", << <<"/mnt/etc/hostname">>, st.hostname >>,
          "hostname") >>

\* the device named in the bootloader command, as text typed by a user would be
DevSda == <<"/", "d", "e", "v", "/", "s", "d", "a">>

GrubSteps ==
  << ChrootCmd(<<"grub-install ">> \o DevSda, "bootloader"),
     ChrootCmd(<<"update-grub">>, "bootloader") >>

\* the loop body of the unmounts for one directory
Umount(target) == Exec("umount", <<target>>, "cleanup")

\* mutant: the root is unmounted before the boot partition
CleanupStepsRootFirst ==
  << Umount(<<"/mnt", BindDirs[1]>>), Umount(<<"/mnt", BindDirs[2]>>),
     Umount(<<"/mnt", BindDirs[3]>>), Umount(<<"/mnt", BindDirs[4]>>),
     Umount(<<"/mnt">>),
     Umount(<<"/mnt/boot">>),
     Step("remove", "fs::remove_dir_all",
          << <<"/usr/share/HackerOS-Installer">> >>, "cleanup"),
     Step("remove", "fs::remove_file",
          << <<"/usr/bin/HackerOS-Installer">> >>, "cleanup"),
     Step("remove", "fs::remove_file",
          << <<"/etc/profile.d/HackerOS-Installer.sh">> >>, "cleanup") >>

CleanupSteps ==
  << Umount(<<"/mnt", BindDirs[1]>>), Umount(<<"/mnt", BindDirs[2]>>),
     Umount(<<"/mnt", BindDirs[3]>>), Umount(<<"/mnt", BindDirs[4]>>),
     Umount(<<"/mnt/boot">>),
     Umount(<<"/mnt">>),
     Step("remove", "fs::remove_dir_all",
          << <<"/usr/share/HackerOS-Installer">> >>, "cleanup"),
     Step("remove", "fs::remove_file",
          << <<"/usr/bin/HackerOS-Installer">> >>, "cleanup"),
     Step("remove", "fs::remove_file",
          << <<"/etc/profile.d/HackerOS-Installer.sh">> >>, "cleanup") >>

RebootSteps == << Exec("reboot", <<>>, "reboot") >>

\* ---------------------------------------------------------- download_file
\* a path is a text whose last piece is its final component or extension
EndsWith(path, suffix) == Len(path) > 0 /\ path[Len(path)] = suffix

MakesExecutable(path) == ~EndsWith(path, "/") /\ ~EndsWith(path, ".desktop")

DownloadFile(url, path) ==
  << Step("get", "Client::get.send", <<url>>, "edition"),
     Step("create", "File::create", <<path>>, "edition"),
     Step("body", "chunk/write_all", <<path>>, "edition") >>
  \o (IF MakesExecutable(path)
      THEN << Exec("chmod", << <<"+x">>, path >>, "edition") >>
      ELSE <<>>)

\* -------------------------------------------------------- install_edition
BlueRelease == "https://github.com/HackerOS-Linux-System/Blue-Environment/releases/download/v0.1/"
HammerRelease == "https://github.com/HackerOS-Linux-System/hammer/releases/download/v0.5/"

BlueComponents == <<"wm", "shell", "launcher", "Desktop", "decorations", "core">>
HammerComponents == <<"hammer-updater", "hammer-tui", "hammer-core", "hammer-builder">>

\* url.split('/').last()
UrlLast(url) == url[Len(url)]

BlueHome(st) ==
  <<"/mnt/home/">> \o st.username \o <<"/.hackeros/Blue-Environment/">>

RECURSIVE BlueDownloads(_, _)
BlueDownloads(st, i) ==
  IF i > Len(BlueComponents) THEN <<>>
  ELSE DownloadFile(<<BlueRelease, BlueComponents[i]>>,
                    BlueHome(st) \o <<"/", BlueComponents[i]>>)
       \o BlueDownloads(st, i + 1)

RECURSIVE HammerDownloads(_)
HammerDownloads(i) ==
  IF i > Len(HammerComponents) THEN <<>>
  ELSE LET url == <<HammerRelease, HammerComponents[i]>>
       IN  DownloadFile(url, <<"/mnt/usr/lib/HackerOS/hammer/", UrlLast(url)>>)
           \o HammerDownloads(i + 1)

EditionAction(st) ==
  CASE st.edition = "Official" ->
         << ChrootCmd(<<"apt install -y kde-plasma-desktop sddm">>, "edition") >>
    [] st.edition = "Gnome" ->
         << ChrootCmd(<<"apt install -y gnome gdm3">>, "edition") >>
    [] st.edition = "Xfce" ->
         << ChrootCmd(<<"apt install -y xfce4 lightdm">>, "edition") >>
    [] st.edition = "Blue" ->
         << Step("mkdir", "fs::create_dir_all", <<BlueHome(st)>>, "edition") >>
         \o BlueDownloads(st, 1)
         \o DownloadFile(<<BlueRelease, "Blue-Environment">>,
                         <<"/mnt/usr/bin/", "Blue-Environment">>)
         \o DownloadFile(<<"https://raw.githubusercontent.com/HackerOS-Linux-System/Blue-Environment/main/",
                           "Blue-Environment.desktop">>,
                         <<"/mnt/usr/share/wayland-sessions/", "Blue-Environment",
                           ".desktop">>)
         \o << ChrootCmd(<<"apt install -y sddm">>, "edition") >>
    [] st.edition = "Hydra" ->
         << Step("clone", "Repository::clone",
                 << <<"https://github.com/HackerOS-Linux-System/hydra-look-and-feel.git">>,
                    <<"/tmp/hydra-look-and-feel">> >>, "edition"),
            Step("copy_dir", "copy_dir",
                 << <<"/tmp/hydra-look-and-feel/files/">>, <<"/mnt/">> >>, "edition") >>
    [] st.edition = "Cybersecurity" ->
         << ChrootCmd(<<"apt install -y nmap wireshark">>, "edition") >>
    [] st.edition = "Wayfire" ->
         << ChrootCmd(<<"apt install -y wayfire sddm">>, "edition") >>
    [] st.edition = "Atomic" ->
         DownloadFile(<<HammerRelease, "hammer">>, <<"/mnt/usr/bin/", "hammer">>)
         \o << Step("mkdir", "fs::create_dir_all",
                    << <<"/mnt/usr/lib/HackerOS/hammer/">> >>, "edition") >>
         \o HammerDownloads(1)
         \o << ChrootCmd(<<"apt install -y kde-plasma-desktop sddm">>, "edition"),
               ChrootCmd(<<"hammer setup">>, "edition") >>

\* mutant: a display manager is installed after the action of every edition
InstallEditionAlwaysApt(st) ==
  << Step("copy_dir", "copy_dir",
          << <<"/usr/share/HackerOS-Installer/official/">>, <<"/mnt/">> >>,
          "edition") >>
  \o EditionAction(st)
  \o << ChrootCmd(<<"apt install -y sddm">>, "edition") >>

\* mutant: the common overlay is copied after the action of the edition
InstallEditionOverlayLast(st) ==
  EditionAction(st)
  \o << Step("copy_dir", "copy_dir",
             << <<"/usr/share/HackerOS-Installer/official/">>, <<"/mnt/">> >>,
             "edition") >>

InstallEdition(st) ==
  << Step("copy_dir", "copy_dir",
          << <<"/usr/share/HackerOS-Installer/official/">>, <<"/mnt/">> >>,
          "edition") >>
  \o EditionAction(st)

\* mutant: the base packages are installed before the bind mounts are made
PerformInstallationChrootFirst(st) ==
  RepoSteps(st) \o PartitionSteps(st) \o FormatSteps(st) \o MountSteps
  \o BootstrapSteps(st) \o BaseSteps(st) \o BindSteps \o HostnameSteps(st)
  \o InstallEdition(st) \o GrubSteps \o CleanupSteps \o RebootSteps

\* mutant: perform_installation returns without the reboot
PerformInstallationNoReboot(st) ==
  RepoSteps(st) \o PartitionSteps(st) \o FormatSteps(st) \o MountSteps
  \o BootstrapSteps(st) \o BindSteps \o BaseSteps(st) \o HostnameSteps(st)
  \o InstallEdition(st) \o GrubSteps \o CleanupSteps

\* the calls of perform_installation, in program order
PerformInstallation(st) ==
  RepoSteps(st) \o PartitionSteps(st) \o FormatSteps(st) \o MountSteps
  \o BootstrapSteps(st) \o BindSteps \o BaseSteps(st) \o HostnameSteps(st)
  \o InstallEdition(st) \o GrubSteps \o CleanupSteps \o RebootSteps

\* ------------------------------------------------------------------- main
\* mutant: main returns an error of run_app at once (run_app(..).await?)
MainAfterRunEarlyReturn(res) == IF res = "Err" THEN "exit" ELSE "teardown"

\* `let res = run_app(&mut state).await; teardown_terminal()?; res`: whatever
\* run_app returned, teardown_terminal is called next
MainAfterRun(res) == "teardown"

\* ------------------------------------------------------------------ state
Init ==
  /\ state = InstallerStateDefault
  /\ selected = NoSel
  /\ pc = "setup"
  /\ ip = 1
  /\ log = <<>>
  /\ exit_nonzero = FALSE
  /\ http_failed = FALSE
  /\ result = "none"
  /\ terminal = "normal"
  /\ last_key = "none"
  /\ pre = [current_step |-> 0, hostname |-> DefaultHostname, selected |-> NoSel]

Snapshot == [current_step |-> state.current_step, hostname |-> state.hostname,
             selected |-> selected]

Typed(st) ==
  Len(st.username) + Len(st.password) + Len(st.disk)
  + (Len(st.hostname) - Len(DefaultHostname))

\* ------------------------------------------------------ main: the set-up
\* setup_terminal()? succeeds: raw mode is on and the alternate screen entered;
\* run_app is called
Setup ==
  /\ pc = "setup"
  /\ terminal' = "raw"
  /\ pc' = "draw"
  /\ UNCHANGED <<state, selected, ip, log, exit_nonzero, http_failed, result,
                 last_key, pre>>

\* enable_raw_mode()? fails (the terminal is as it was) or
\* execute!(.., EnterAlternateScreen)? fails (raw mode stays on);
\* `setup_terminal()?` returns that error from main: run_app and
\* teardown_terminal are not called
SetupErr ==
  /\ pc = "setup"
  /\ terminal' \in {"normal", "raw_only"}
  /\ pc' = "setup_failed"
  /\ UNCHANGED <<state, selected, ip, log, exit_nonzero, http_failed, result,
                 last_key, pre>>

\* ------------------------------------------------------- run_app: the loop
\* terminal.draw(|f| draw_ui(f, state, &mut list_state))
Draw ==
  /\ pc = "draw"
  /\ state' = DrawState(state)
  /\ selected' \in RenderSelection(state, DrawSelection(state, selected))
  /\ pc' = "read"
  /\ UNCHANGED <<ip, log, exit_nonzero, http_failed, result, terminal, last_key, pre>>

\* Terminal::new(backend)? (before the first frame), terminal.draw(..)? or
\* event::read()? returns an error
TerminalErr ==
  /\ pc \in {"draw", "read"}
  /\ result' = "Err"
  /\ pc' = MainAfterRun("Err")
  /\ UNCHANGED <<state, selected, ip, log, exit_nonzero, http_failed, terminal,
                 last_key, pre>>

\* what every key event does after its handler: the quit and completion checks
Handled(key, st, sel) ==
  /\ state' = st
  /\ selected' = sel
  /\ last_key' = key
  /\ pre' = Snapshot
  /\ pc' = AfterEvent(st)
  /\ result' = IF st.quit THEN "Ok" ELSE result
  /\ UNCHANGED <<ip, log, exit_nonzero, http_failed, terminal>>

\* mutant: no character is matched by the quit arm
IsQuitKeyNever(c) == FALSE

\* the arm KeyCode::Char('q') stands before the arm KeyCode::Char(c)
IsQuitKey(c) == c = "q"

KeyQuit ==
  /\ pc = "read"
  /\ \E c \in Chars :
       /\ IsQuitKey(c)
       /\ Handled("q", [state EXCEPT !.quit = TRUE], selected)

KeyEnter ==
  /\ pc = "read"
  /\ LET r == HandleEnter(state, selected)
     IN  Handled("enter", r.state, r.selected)

KeyUp ==
  /\ pc = "read"
  /\ Handled("up", state, SelectUp(selected))

KeyDown ==
  /\ pc = "read"
  /\ SelectDown(selected) <= MaxSel
  /\ Handled("down", state, SelectDown(selected))

KeyChar ==
  /\ pc = "read"
  /\ \E c \in Chars :
       LET st == HandleCharInput(state, c)
       IN  /\ ~IsQuitKey(c)
           /\ Len(st.username) <= MaxLen
           /\ Len(st.password) <= MaxLen
           /\ Len(st.hostname) <= Len(DefaultHostname) + MaxLen
           /\ Len(st.disk) <= MaxLen
           /\ Typed(st) <= MaxTyped
           /\ Handled("char", st, selected)

\* any other key, a key release, or an event that is not a key
KeyOther ==
  /\ pc = "read"
  /\ Handled("other", state, selected)

\* -------------------------------------------- perform_installation: steps
Program == PerformInstallation(state)
Running == pc = "install" /\ ip <= Len(Program)
Current == Program[ip]

\* the call returns normally (a command exits with status 0, a request is
\* answered with a success status)
StepOk ==
  /\ Running
  /\ log' = Append(log, Current)
  /\ ip' = ip + 1
  /\ UNCHANGED <<state, selected, pc, exit_nonzero, http_failed, result, terminal,
                 last_key, pre>>

\* Command::status() returns Ok(status) with a failure status: `?` passes it
ExecNonZero ==
  /\ Running
  /\ Current.op = "exec"
  /\ log' = Append(log, Current)
  /\ ip' = ip + 1
  /\ exit_nonzero' = TRUE
  /\ UNCHANGED <<state, selected, pc, http_failed, result, terminal, last_key, pre>>

\* send() returns Ok(response) with a non-success HTTP status: `?` passes it
GetBadStatus ==
  /\ Running
  /\ Current.op = "get"
  /\ log' = Append(log, Current)
  /\ ip' = ip + 1
  /\ http_failed' = TRUE
  /\ UNCHANGED <<state, selected, pc, exit_nonzero, result, terminal, last_key, pre>>

\* the call returns Err (the program cannot be launched, an I/O or network
\* error): `?` returns it from perform_installation and run_app
StepErr ==
  /\ Running
  /\ result' = "Err"
  /\ pc' = MainAfterRun("Err")
  /\ UNCHANGED <<state, selected, ip, log, exit_nonzero, http_failed, terminal,
                 last_key, pre>>

\* perform_installation returns Ok(())
InstallDone ==
  /\ pc = "install"
  /\ ip > Len(Program)
  /\ result' = "Ok"
  /\ pc' = MainAfterRun("Ok")
  /\ UNCHANGED <<state, selected, ip, log, exit_nonzero, http_failed, terminal,
                 last_key, pre>>

\* main: teardown_terminal succeeds, then the result of run_app is returned
Teardown ==
  /\ pc = "teardown"
  /\ terminal' = "normal"
  /\ pc' = "exit"
  /\ UNCHANGED <<state, selected, ip, log, exit_nonzero, http_failed, result,
                 last_key, pre>>

\* main: disable_raw_mode()? fails (the terminal stays raw) or
\* execute!(.., LeaveAlternateScreen)? fails (the alternate screen stays);
\* `teardown_terminal()?` returns that error and the result of run_app is dropped
TeardownErr ==
  /\ pc = "teardown"
  /\ terminal' \in {"raw", "alternate"}
  /\ pc' = "teardown_failed"
  /\ UNCHANGED <<state, selected, ip, log, exit_nonzero, http_failed, result,
                 last_key, pre>>

Next ==
  \/ Setup
  \/ SetupErr
  \/ Draw
  \/ TerminalErr
  \/ KeyQuit
  \/ KeyEnter
  \/ KeyUp
  \/ KeyDown
  \/ KeyChar
  \/ KeyOther
  \/ StepOk
  \/ ExecNonZero
  \/ GetBadStatus
  \/ StepErr
  \/ InstallDone
  \/ Teardown
  \/ TeardownErr

Spec == Init /\ [][Next]_vars

\* Every call of the pipeline returns: a call that is due is made and comes
\* back, one way or another.  Nothing is assumed of the user or the terminal.
PipelineStep == StepOk \/ ExecNonZero \/ GetBadStatus \/ StepErr

SpecLive == Spec /\ WF_vars(PipelineStep) /\ WF_vars(InstallDone)

\* ---------------------------------------------- handle_enter as a function
\* handle_enter applied once to any InstallerState and selection, also those
\* the wizard loop does not produce (an empty hostname)
EnterTexts == {<<>>, <<"a">>}

InitEnter ==
  /\ \E step \in 0..STEPS, u \in EnterTexts, p \in EnterTexts, d \in EnterTexts,
        h \in {<<>>, DefaultHostname, <<"a">>} :
       state = [InstallerStateDefault EXCEPT !.current_step = step,
                  !.username = u, !.password = p, !.disk = d, !.hostname = h]
  /\ selected \in {NoSel} \cup 0..MaxSel
  /\ pc = "read"
  /\ ip = 1
  /\ log = <<>>
  /\ exit_nonzero = FALSE
  /\ http_failed = FALSE
  /\ result = "none"
  /\ terminal = "raw"
  /\ last_key = "none"
  /\ pre = Snapshot

NextEnter == KeyEnter

SpecEnter == InitEnter /\ [][NextEnter]_vars

\* ================================================================ claims

CommandEntry(e) == e.op = "exec"
IsExec(e, prog) == e.op = "exec" /\ e.name = prog
IsChroot(e) == IsExec(e, "chroot")
IsBind(e, dir) ==
  IsExec(e, "mount") /\ Len(e.args) = 3 /\ e.args[3] = <<"/mnt", dir>>
ConfigComplete ==
  /\ state.username # <<>>
  /\ state.password # <<>>
  /\ state.hostname # <<>>
  /\ state.disk # <<>>
  /\ state.edition # None
  /\ state.branch # None
  /\ state.filesystem # None

\* C1: once an external command of the pipeline has failed (here: returned a
\* failure exit status), the run has ended with an error and nothing later
\* ran; in particular reboot was not invoked.
C1_FailedCommandEndsRun ==
  exit_nonzero =>
    /\ pc \in {"teardown", "exit", "teardown_failed"}
    /\ result = "Err"
    /\ \A i \in 1..Len(log) : ~IsExec(log[i], "reboot")

\* C2: whenever the pipeline is running or has run anything, the
\* configuration is complete, and nothing of the pipeline runs before the
\* Summary stage (9) was confirmed with Enter.
C2_ConfigCompleteAtStart ==
  /\ (pc = "install" \/ log # <<>>) =>
       /\ ConfigComplete
       /\ state.current_step = STEPS
       /\ pre.current_step = 9
       /\ last_key = "enter"
  /\ state.current_step < STEPS => (log = <<>> /\ ip = 1 /\ pc # "install")

C2_Witness ==
  /\ pc = "install"
  /\ Len(log) >= 2
  /\ state.edition = "Blue"
  /\ state.manual_partition

\* C3: the stage cursor starts at 0; every step leaves it unchanged or adds
\* exactly 1, and adds 1 only in an Enter event; it never exceeds 10; the
\* pipeline runs only with the cursor at 10, reached by confirming stage 9.
C3_StageCursor ==
  /\ state.current_step = 0
  /\ [][ \/ state'.current_step = state.current_step
         \/ (state'.current_step = state.current_step + 1 /\ KeyEnter) ]_vars
  /\ [](state.current_step <= STEPS)
  /\ [](pc = "install" =>
          state.current_step = STEPS /\ pre.current_step = 9 /\ last_key = "enter")

C3_Witness ==
  /\ state.current_step = STEPS
  /\ pre.current_step = 9
  /\ last_key = "enter"
  /\ pc = "install"
  /\ log = <<>>

\* C4: an Enter event on the Username, Password or Disk stage while that
\* stage's field is empty leaves the stage cursor unchanged.
C4_EmptyFieldNoAdvance ==
  [][ ( /\ KeyEnter
        /\ \/ (state.current_step = 1 /\ state.username = <<>>)
           \/ (state.current_step = 2 /\ state.password = <<>>)
           \/ (state.current_step = 8 /\ state.disk = <<>>) )
      => state'.current_step = state.current_step ]_vars

C4_Witness ==
  /\ last_key = "enter"
  /\ pre.current_step = 8
  /\ state.current_step = 8
  /\ state.disk = <<>>

EditionTable == <<"Official", "Gnome", "Xfce", "Blue", "Hydra", "Cybersecurity",
                  "Wayfire", "Atomic">>
BranchTable == <<"Stable", "Testing", "Unstable">>
FilesystemTable == <<"Btrfs", "Ext4", "Zfs">>

\* C5: an Enter event on a list stage with the cursor on index i of the
\* stage's options stores the i-th entry of the stage's table: Edition 0..7,
\* Branch 0..2, Filesystem 0..2, PartitionMode 0 = automatic, 1 = manual.
C5_PositionalMapping ==
  [][ KeyEnter =>
      /\ (state.current_step = 4 /\ selected \in 0..7)
           => state'.edition = EditionTable[selected + 1]
      /\ (state.current_step = 5 /\ selected \in 0..2)
           => state'.branch = BranchTable[selected + 1]
      /\ (state.current_step = 6 /\ selected \in 0..2)
           => state'.filesystem = FilesystemTable[selected + 1]
      /\ (state.current_step = 7 /\ selected \in 0..1)
           => state'.manual_partition = (selected = 1) ]_vars

C5_Witness ==
  /\ last_key = "enter"
  /\ pre.current_step = 7
  /\ pre.selected = 1
  /\ state.manual_partition
  /\ state.edition = "Atomic"
  /\ state.branch = "Unstable"
  /\ state.filesystem = "Ext4"

\* C6: an Enter event on the Hostname stage (3) always moves to the Edition
\* stage (4), and an empty hostname becomes "hackeros".
C6_HostnameDefault ==
  [][ (KeyEnter /\ state.current_step = 3) =>
        /\ state'.current_step = 4
        /\ (state.hostname = <<>> => state'.hostname = DefaultHostname) ]_vars

C6_Witness ==
  /\ last_key = "enter"
  /\ pre.current_step = 3
  /\ pre.hostname = <<>>
  /\ state.current_step = 4
  /\ state.hostname = DefaultHostname

\* C7: every step that changes the stage cursor leaves the selection unset.
C7_TransitionResetsSelection ==
  [][ state'.current_step # state.current_step => selected' = NoSel ]_vars

C7_Witness ==
  /\ last_key = "enter"
  /\ pre.current_step = 4
  /\ pre.selected = 3
  /\ state.current_step = 5
  /\ selected = NoSel

PhaseOrder == <<"repo", "partition", "format", "mount", "bootstrap", "bind",
                "base", "hostname", "edition", "bootloader", "cleanup", "reboot">>
PhaseRank(p) == CHOOSE k \in 1..Len(PhaseOrder) : PhaseOrder[k] = p

\* an entry e satisfying Q is made only after some entry satisfying P
Precedes(P(_), Q(_), e) ==
  Q(e) => \E i \in 1..Len(log) : P(log[i])

IsSourcesWrite(e) == e.op = "write" /\ e.args[1] = <<"/etc/apt/sources.list">>
IsAptUpdate(e) == IsExec(e, "apt")
IsPartitionTool(e) == IsExec(e, "cfdisk") \/ IsExec(e, "sfdisk")
IsFormat(e) == e.op = "exec" /\ e.name \in {"mkfs.btrfs", "mkfs.ext4", "zpool create"}
IsPlainMount(e) == IsExec(e, "mount") /\ Len(e.args) = 2
IsBootstrap(e) == IsExec(e, "debootstrap")
IsBindDev(e) == IsBind(e, "/dev")
IsBindProc(e) == IsBind(e, "/proc")
IsBindSys(e) == IsBind(e, "/sys")
IsBindRun(e) == IsBind(e, "/run")
IsHostnameWrite(e) == e.op = "write" /\ e.args[1] = <<"/mnt/etc/hostname">>
IsOverlayCopy(e) ==
  e.op = "copy_dir" /\ e.args[1] = <<"/usr/share/HackerOS-Installer/official/">>
IsGrubInstall(e) ==
  IsChroot(e) /\ e.args[4][1] = "grub-install "
IsUmount(e) == IsExec(e, "umount")
IsRemove(e) == e.op = "remove"
IsReboot(e) == IsExec(e, "reboot")

\* C8: the calls of the pipeline are made in the fixed phase order: each call
\* is appended to what was executed before, in a phase not earlier than the
\* previous call's; the package-source write and index refresh precede the
\* partitioning tool, and the bind mounts of /dev, /proc, /sys, /run, in that
\* order, precede the first command run inside the target root; nothing is
\* executed after the reboot.
C8_PhaseOrder ==
  [][log' # log =>
       LET e == log'[Len(log')]
       IN  /\ log' = Append(log, e)
           /\ log # <<>> =>
                /\ PhaseRank(log[Len(log)].phase) <= PhaseRank(e.phase)
                /\ ~IsReboot(log[Len(log)])
           /\ Precedes(IsSourcesWrite, IsAptUpdate, e)
           /\ Precedes(IsAptUpdate, IsPartitionTool, e)
           /\ Precedes(IsPartitionTool, IsFormat, e)
           /\ Precedes(IsFormat, IsPlainMount, e)
           /\ Precedes(IsPlainMount, IsBootstrap, e)
           /\ Precedes(IsBootstrap, IsBindDev, e)
           /\ Precedes(IsBindDev, IsBindProc, e)
           /\ Precedes(IsBindProc, IsBindSys, e)
           /\ Precedes(IsBindSys, IsBindRun, e)
           /\ Precedes(IsBindRun, IsChroot, e)
           /\ Precedes(IsChroot, IsHostnameWrite, e)
           /\ Precedes(IsHostnameWrite, IsOverlayCopy, e)
           /\ Precedes(IsOverlayCopy, IsGrubInstall, e)
           /\ Precedes(IsGrubInstall, IsUmount, e)
           /\ Precedes(IsUmount, IsRemove, e)
           /\ Precedes(IsRemove, IsReboot, e)]_vars

C8_Witness ==
  /\ log # <<>>
  /\ IsReboot(log[Len(log)])
  /\ result = "Ok"

\* the last argument of every mount and of every umount executed so far
MountTargets ==
  LET m == SelectSeq(log, LAMBDA e : IsExec(e, "mount"))
  IN  [i \in 1..Len(m) |-> m[i].args[Len(m[i].args)]]
UmountTargets ==
  LET u == SelectSeq(log, IsUmount)
  IN  [i \in 1..Len(u) |-> u[i].args[1]]
Reverse(s) == [i \in 1..Len(s) |-> s[Len(s) + 1 - i]]
IsPrefix(s, t) == Len(s) <= Len(t) /\ SubSeq(t, 1, Len(s)) = s

\* C9 as stated: the unmounts are made in the reverse order of the mounts
\* (/run, /sys, /proc, /dev, boot, root).
C9_ReverseOrder == IsPrefix(UmountTargets, Reverse(MountTargets))

\* C9 amended: the unmounts are made in the order /mnt/dev, /mnt/proc,
\* /mnt/sys, /mnt/run, /mnt/boot, /mnt: the bind mounts in the order they
\* were mounted, then boot, then root.
C9_UmountOrder ==
  UmountTargets # <<>> =>
    /\ Len(MountTargets) = 6
    /\ MountTargets = << <<"/mnt">>, <<"/mnt/boot">>, <<"/mnt", "/dev">>,
                         <<"/mnt", "/proc">>, <<"/mnt", "/sys">>, <<"/mnt", "/run">> >>
    /\ IsPrefix(UmountTargets,
                SubSeq(MountTargets, 3, 6) \o <<MountTargets[2], MountTargets[1]>>)

C9_Witness ==
  /\ Len(UmountTargets) = 6
  /\ UmountTargets[6] = <<"/mnt">>
  /\ result = "Ok"

\* C10: once the quit flag is set the run has ended or is ending with Ok,
\* the pipeline has run nothing and is not running, and the flag stays set.
C10_QuitNeverInstalls ==
  /\ [](state.quit =>
          /\ pc \in {"teardown", "exit", "teardown_failed"}
          /\ result = "Ok"
          /\ log = <<>>
          /\ ip = 1)
  /\ [][state.quit => (state'.quit /\ pc' # "install")]_vars

C10_Witness ==
  /\ state.quit
  /\ last_key = "q"
  /\ pre.current_step = 0
  /\ pc = "exit"
  /\ log = <<>>

Ended == pc \in {"exit", "teardown_failed", "setup_failed"}

\* C11 as stated: whenever the run has ended with a failure of the pipeline,
\* the terminal is in normal mode.
C11_AlwaysRestored ==
  (Ended /\ result = "Err" /\ state.current_step = STEPS) => terminal = "normal"

\* C11 amended: when main returns the failure of run_app, whatever the point
\* of the pipeline (or of the wizard) it came from, the terminal is already
\* back in normal mode; main returns anything else only when restoring the
\* terminal itself failed.
C11_TerminalRestoredBeforeError ==
  (pc = "exit" /\ result = "Err") => terminal = "normal"

C11_Witness ==
  /\ pc = "exit"
  /\ result = "Err"
  /\ terminal = "normal"
  /\ log # <<>>
  /\ log[Len(log)].phase = "base"

\* C12: once a download of the edition installer has failed (here: the
\* request was answered with a non-success HTTP status), the run has ended
\* with an error.
C12_FetchFailureAborts ==
  http_failed => (pc \in {"teardown", "exit", "teardown_failed"} /\ result = "Err")

CodenameTable == [Stable |-> "trixie", Testing |-> "forky", Unstable |-> "sid"]

\* C13: every branch has its fixed codename (Stable trixie, Testing forky,
\* Unstable sid); the package-source line written and the codename given to
\* debootstrap are those of the configured branch.
C13_BranchCodename ==
  \A i \in 1..Len(log) :
    /\ IsSourcesWrite(log[i]) =>
         log[i].args[2] = <<"deb http://deb.debian.org/debian ",
                            CodenameTable[state.branch], " main">>
    /\ IsBootstrap(log[i]) =>
         log[i].args = << <<CodenameTable[state.branch]>>, <<"/mnt">> >>

C13_Witness ==
  /\ state.branch = "Testing"
  /\ \E i \in 1..Len(log) :
       IsBootstrap(log[i]) /\ log[i].args[1] = <<"forky">>

\* the calls of the edition step executed so far
EditionLog == SelectSeq(log, LAMBDA e : e.phase = "edition")
EditionStepOver == \E i \in 1..Len(log) : log[i].phase = "bootloader"
IsPackageManager(e) ==
  \/ IsExec(e, "apt")
  \/ IsExec(e, "apt-get")
  \/ IsExec(e, "dpkg")
  \/ (IsChroot(e) /\ e.args[4][1] \in
        {"apt update", "apt install -y linux-image-amd64 grub-efi-amd64",
         "apt install -y kde-plasma-desktop sddm", "apt install -y gnome gdm3",
         "apt install -y xfce4 lightdm", "apt install -y sddm",
         "apt install -y nmap wireshark", "apt install -y wayfire sddm"})
IsClone(e) ==
  /\ e.op = "clone"
  /\ e.args[1] = <<"https://github.com/HackerOS-Linux-System/hydra-look-and-feel.git">>
IsHydraCopy(e) ==
  /\ e.op = "copy_dir"
  /\ e.args = << <<"/tmp/hydra-look-and-feel/files/">>, <<"/mnt/">> >>

\* C14: with the Hydra edition the edition step, after the common overlay
\* copy, is the repository clone followed by the recursive copy of the
\* clone's files directory into /mnt/, and it runs no package manager.
C14_HydraCloneAndCopy ==
  state.edition = "Hydra" =>
    /\ \A i \in 1..Len(EditionLog) : ~IsPackageManager(EditionLog[i])
    /\ Len(EditionLog) <= 3
    /\ Len(EditionLog) >= 2 => IsClone(EditionLog[2])
    /\ Len(EditionLog) >= 3 => IsHydraCopy(EditionLog[3])
    /\ EditionStepOver => Len(EditionLog) = 3

C14_Witness ==
  /\ state.edition = "Hydra"
  /\ EditionStepOver
  /\ IsClone(EditionLog[2])
  /\ IsHydraCopy(EditionLog[3])

\* C15: the device named in the bootloader installer's command is the
\* configured disk.
C15_BootloaderOnChosenDisk ==
  \A i \in 1..Len(log) :
    IsGrubInstall(log[i]) => log[i].args[4] = <<"grub-install ">> \o state.disk

\* C16: an Up or Down event changes nothing but the selection; Up lowers a
\* set index by 1 but not below 0; Down raises a set index by 1 whatever its
\* value, also past the last option of the stage's list.
C16_NavigationOnlyMovesCursor ==
  [][ /\ (KeyUp \/ KeyDown) =>
           /\ state' = state
           /\ UNCHANGED <<ip, log, exit_nonzero, http_failed, result, terminal>>
           /\ (selected = NoSel => selected' = NoSel)
      /\ (KeyUp /\ selected # NoSel) =>
           /\ selected' >= 0
           /\ selected' = (IF selected = 0 THEN 0 ELSE selected - 1)
      /\ (KeyDown /\ selected # NoSel) => selected' = selected + 1 ]_vars

C16_Witness ==
  /\ last_key = "down"
  /\ state.current_step = 5
  /\ pre.selected = 3
  /\ selected = 4

\* C17: a character event on the Username, Password, Hostname or Disk stage
\* appends the character to that stage's field and leaves the other three
\* text fields unchanged; on any other stage it changes nothing of the
\* state; it never changes the stage cursor.
C17_CharInput ==
  [][ KeyChar =>
        /\ state'.current_step = state.current_step
        /\ selected' = selected
        /\ \E c \in Chars :
             state' =
               CASE state.current_step = 1 -> [state EXCEPT !.username = @ \o <<c>>]
                 [] state.current_step = 2 -> [state EXCEPT !.password = @ \o <<c>>]
                 [] state.current_step = 3 -> [state EXCEPT !.hostname = @ \o <<c>>]
                 [] state.current_step = 8 -> [state EXCEPT !.disk = @ \o <<c>>]
                 [] OTHER -> state ]_vars

C17_Witness ==
  /\ last_key = "char"
  /\ pre.current_step = 3
  /\ pre.hostname = DefaultHostname
  /\ state.hostname = DefaultHostname \o <<"a">>
  /\ state.username = <<"a">>
  /\ state.password = <<"a">>
  /\ state.disk = <<>>

\* what an executed call of the edition step is, for comparing with the table
Token(e) ==
  CASE IsChroot(e)         -> <<"chroot", e.args[4][1]>>
    [] IsExec(e, "chmod")  -> <<"chmod">>
    [] e.op = "get"        -> <<"get", e.args[1][Len(e.args[1])]>>
    [] e.op = "copy_dir"   -> <<"copy_dir", e.args[1][1]>>
    [] OTHER               -> <<e.op>>
Tokens(l) == [i \in 1..Len(l) |-> Token(l[i])]

Fetch(name) == << <<"get", name>>, <<"create">>, <<"body">> >>
FetchExecutable(name) == Fetch(name) \o << <<"chmod">> >>
Install(packages) == << <<"chroot", packages>> >>

\* the action of each edition, after the table of the design
ArmOf(ed) ==
  CASE ed = "Official"      -> Install("apt install -y kde-plasma-desktop sddm")
    [] ed = "Gnome"         -> Install("apt install -y gnome gdm3")
    [] ed = "Xfce"          -> Install("apt install -y xfce4 lightdm")
    [] ed = "Wayfire"       -> Install("apt install -y wayfire sddm")
    [] ed = "Cybersecurity" -> Install("apt install -y nmap wireshark")
    [] ed = "Blue" ->
         << <<"mkdir">> >>
         \o FetchExecutable("wm") \o FetchExecutable("shell")
         \o FetchExecutable("launcher") \o FetchExecutable("Desktop")
         \o FetchExecutable("decorations") \o FetchExecutable("core")
         \o FetchExecutable("Blue-Environment")
         \o Fetch("Blue-Environment.desktop")
         \o Install("apt install -y sddm")
    [] ed = "Hydra" ->
         << <<"clone">>, <<"copy_dir", "/tmp/hydra-look-and-feel/files/">> >>
    [] ed = "Atomic" ->
         FetchExecutable("hammer") \o << <<"mkdir">> >>
         \o FetchExecutable("hammer-updater") \o FetchExecutable("hammer-tui")
         \o FetchExecutable("hammer-core") \o FetchExecutable("hammer-builder")
         \o Install("apt install -y kde-plasma-desktop sddm")
         \o << <<"chroot", "hammer setup">> >>
OverlayToken == <<"copy_dir", "/usr/share/HackerOS-Installer/official/">>
Editions == {EditionTable[i] : i \in 1..Len(EditionTable)}

\* C18: the edition step starts with the copy of the common overlay and goes
\* on with the action of the configured edition, call by call; when the step
\* is over it has performed that whole action, and the action of no other
\* edition.
C18_OverlayThenEditionAction ==
  EditionLog # <<>> =>
    LET t == Tokens(EditionLog)
        whole == <<OverlayToken>> \o ArmOf(state.edition)
    IN  /\ t[1] = OverlayToken
        /\ IsPrefix(t, whole)
        /\ EditionStepOver =>
             /\ t = whole
             /\ \A ed \in Editions \ {state.edition} : Tail(t) # ArmOf(ed)

C18_Witness ==
  /\ state.edition = "Atomic"
  /\ EditionStepOver
  /\ Len(EditionLog) = 24

RebootInvoked == \E i \in 1..Len(log) : IsReboot(log[i])
PipelineOver == state.current_step = STEPS /\ pc # "install"

\* C19: while the pipeline runs no key event is handled and the quit flag is
\* not set; it can only go on or return.  When every call of the pipeline
\* returns, the pipeline ends, and it ends either with an error and no reboot
\* or with the reboot invoked after every other call and no error.
C19_NoCancelTwoOutcomes ==
  /\ [][ pc = "install" =>
           /\ state' = state
           /\ selected' = selected
           /\ last_key' = last_key
           /\ pre' = pre
           /\ pc' \in {"install", "teardown"} ]_vars
  /\ [](pc = "install" => ~state.quit)
  /\ [](PipelineOver =>
          \/ (result = "Err" /\ ~RebootInvoked)
          \/ (result = "Ok" /\ RebootInvoked /\ log = Program
                /\ IsReboot(log[Len(log)])))
  /\ (pc = "install") ~> PipelineOver

C19_Witness ==
  /\ PipelineOver
  /\ result = "Ok"
  /\ RebootInvoked
  /\ exit_nonzero

\* C20: when a key event is about to be handled (the frame has been drawn),
\* the selection is set exactly on the list stages 4..7.
C20_SelectionSetOnListStages ==
  pc = "read" => (selected # NoSel <=> state.current_step \in 4..7)

C20_Witness ==
  /\ pc = "read"
  /\ state.current_step = 8
  /\ selected = NoSel
  /\ last_key = "up"
  /\ pre.current_step = 8

\* the selections possible after n further rounds of the loop with an Up
\* event each (the frame is drawn, then the event is handled)
RECURSIVE UpEvents(_, _, _)
UpEvents(st, sels, n) ==
  IF n = 0 THEN sels
  ELSE UpEvents(DrawState(st),
                { SelectUp(r) : r \in UNION { RenderSelection(st, DrawSelection(st, sel))
                                               : sel \in sels } },
                n - 1)

OutOfRangeEnter ==
  /\ KeyEnter
  /\ state.current_step \in 4..6
  /\ selected >= OptionCount(state.current_step)

\* C21: on the Edition, Branch and Filesystem stages an Enter event received
\* while the selection is at or beyond the stage's option count changes
\* nothing: the stage, every configuration field, the preview flag and the
\* selection (not reset) are as before and the loop goes on; after as many Up
\* events as lie between the selection and the last option the selection is
\* in range, whatever the rendering did to it, and an Enter event then
\* advances to the next stage with the selected option stored.
C21_OutOfRangeEnterNoOp ==
  [][ OutOfRangeEnter =>
        /\ state' = state
        /\ selected' = selected
        /\ pc' = "draw"
        /\ UNCHANGED <<ip, log, exit_nonzero, http_failed, result, terminal>>
        /\ LET step == state.current_step
               last == OptionCount(step) - 1
               back == UpEvents(state', {selected'}, selected' - last)
           IN  /\ last \in back
               /\ \A b \in back :
                    LET r == HandleEnter(DrawState(state'), b)
                    IN  /\ b \in 0..last
                        /\ r.state.current_step = step + 1
                        /\ r.selected = NoSel
                        /\ step = 4 => r.state.edition = EditionTable[b + 1]
                        /\ step = 5 => r.state.branch = BranchTable[b + 1]
                        /\ step = 6 => r.state.filesystem = FilesystemTable[b + 1] ]_vars

C21_Witness ==
  /\ last_key = "enter"
  /\ pc = "draw"
  /\ state.current_step = 6
  /\ pre.current_step = 6
  /\ pre.selected = 3
  /\ selected = 3
  /\ state.filesystem = None

\* C22: in every reachable state the hostname is not empty and begins with
\* "hackeros", and so did the hostname before the last event; an Enter event
\* on the Hostname stage therefore never finds it empty and leaves it as typed.
C22_HostnameKeepsDefault ==
  /\ state.hostname # <<>>
  /\ IsPrefix(DefaultHostname, state.hostname)
  /\ pre.hostname # <<>>
  /\ IsPrefix(DefaultHostname, pre.hostname)
  /\ (last_key = "enter" /\ pre.current_step = 3) => state.hostname = pre.hostname

C22_Witness ==
  /\ last_key = "enter"
  /\ pre.current_step = 3
  /\ state.current_step = 4
  /\ pre.hostname = DefaultHostname \o <<"a">>
  /\ state.hostname = DefaultHostname \o <<"a">>

NoQ(text) == \A i \in 1..Len(text) : text[i] # "q"

\* C23: the key 'q' is the quit event on every stage, the text stages
\* included: the event sets the quit flag and changes nothing else of the
\* state, so no text field ever holds a 'q'; after it the loop is left, the
\* pipeline is never started and nothing more is typed.
C23_QuitKeyEverywhere ==
  /\ [](/\ NoQ(state.username)
        /\ NoQ(state.password)
        /\ NoQ(state.hostname)
        /\ NoQ(state.disk))
  /\ [][ KeyQuit =>
          /\ state' = [state EXCEPT !.quit = TRUE]
          /\ selected' = selected
          /\ pc' = "teardown" ]_vars
  /\ [](state.quit =>
          /\ last_key = "q"
          /\ pc \in {"teardown", "exit", "teardown_failed"}
          /\ result = "Ok"
          /\ log = <<>>)
  /\ [][ state.quit => state' = state /\ log' = log ]_vars

C23_Witness ==
  /\ last_key = "q"
  /\ state.quit
  /\ pre.current_step = 2
  /\ state.current_step = 2
  /\ state.username = <<"a">>
  /\ state.password = <<"a">>
  /\ pc = "exit"

====
